---- MODULE Spec2Model ----
(***************************************************************************)
(* go-go-web (convert.py): conversion of .txt / .md files to .html.        *)
(*                                                                         *)
(* A line of text is a sequence of one-character strings.  The regular    *)
(* expressions of markdown_to_html are modelled by operators that compute  *)
(* what re.sub / re.subn compute: leftmost match, greedy quantifiers,      *)
(* non-overlapping matches replaced from left to right.                    *)
(***************************************************************************)
EXTENDS Integers, Sequences, FiniteSets, TLC

(* ------------------------------ bounds -------------------------------- *)
MaxLen == 5          \* longest markdown input line, in characters
MaxLines == 3        \* most lines read from one markdown document
MaxTxtSize == 7      \* most characters of a plain-text file, newlines included
MaxFiles == 2        \* most entries of a directory listing

(* ------------------------------- state --------------------------------- *)
\* markdown_to_html: position, the flag, the item read, the line written
VARIABLES md_pc, in_code_block, raw, line, nread, nwritten, md_shell
\* get_html_before_body: position, arguments, result
VARIABLES h_pc, h_filename, h_css_url, h_metadata, h_html
\* text_to_html: position, the lines read, the output file
VARIABLES txt_pc, txt_in, txt_out, txt_shell
\* the file system and the process; a call of convert_to_html
VARIABLES fs, cv_pc, cv_path, cv_folder, cv_css
\* the main block
VARIABLES main_pc, input_kind, listing, idx, options

md_vars == <<md_pc, in_code_block, raw, line, nread, nwritten, md_shell>>
head_vars == <<h_pc, h_filename, h_css_url, h_metadata, h_html>>
txt_vars == <<txt_pc, txt_in, txt_out, txt_shell>>
cv_vars == <<cv_pc, cv_path, cv_folder, cv_css>>
main_vars == <<main_pc, input_kind, listing, idx, options>>
vars == <<md_vars, head_vars, txt_vars, fs, cv_vars, main_vars>>

not_md_vars == <<head_vars, txt_vars, fs, cv_vars, main_vars>>
not_head_vars == <<md_vars, txt_vars, fs, cv_vars, main_vars>>
not_txt_vars == <<md_vars, head_vars, fs, cv_vars, main_vars>>
not_cv_vars == <<md_vars, head_vars, txt_vars, main_vars>>
not_main_vars == <<md_vars, head_vars, txt_vars, cv_vars>>

(* --------------------------- characters ------------------------------- *)
\* BT stands for the grave accent U+0060 (backtick), which the lexer does not
\* accept inside a string
BT == "BT"

Chars == {"a", "*", "_", BT, "-", " "}
TxtChars == {"a", "*", BT, " "}
Whitespace == {" ", "\t", "\n", "\r"}

LinesOver(alphabet, n) == UNION {[1..k -> alphabet] : k \in 0..n}
Lines == LinesOver(Chars, MaxLen)

(* ------------------------------ str.strip ------------------------------ *)
RECURSIVE LStrip(_)
LStrip(s) ==
    IF s = <<>> THEN <<>>
    ELSE IF s[1] \in Whitespace THEN LStrip(Tail(s)) ELSE s

RECURSIVE RStrip(_)
RStrip(s) ==
    IF s = <<>> THEN <<>>
    ELSE IF s[Len(s)] \in Whitespace THEN RStrip(SubSeq(s, 1, Len(s) - 1)) ELSE s

Strip(s) == RStrip(LStrip(s))

(* ------------------------------ the tags ------------------------------- *)
PreOpen == <<"<", "p", "r", "e", ">">>
PreClose == <<"<", "/", "p", "r", "e", ">">>
EmOpen == <<"<", "e", "m", ">">>
EmClose == <<"<", "/", "e", "m", ">">>
StrongOpen == <<"<", "s", "t", "r", "o", "n", "g", ">">>
StrongClose == <<"<", "/", "s", "t", "r", "o", "n", "g", ">">>
HrTag == <<"<", "h", "r", " ", "/", ">">>
CodeOpen == <<"<", "c", "o", "d", "e", ">">>
CodeClose == <<"<", "/", "c", "o", "d", "e", ">">>
POpen == <<"<", "p", ">">>
PClose == <<"<", "/", "p", ">">>

(* ------------------------- regular expressions ------------------------- *)
\* index of the first c in s at or after i, 0 when there is none
NextIdx(s, c, i) ==
    IF \E j \in i..Len(s) : s[j] = c
    THEN CHOOSE j \in i..Len(s) : s[j] = c /\ \A k \in i..(j - 1) : s[k] # c
    ELSE 0

\* number of leading characters of s, from index i on, that equal c
RECURSIVE RunLen(_, _, _)
RunLen(s, c, i) ==
    IF i <= Len(s) /\ s[i] = c THEN 1 + RunLen(s, c, i + 1) ELSE 0

\* /^[ ]*BT BT BT.*$/
FenceOpenMatches(s) ==
    LET sp == RunLen(s, " ", 1)
    IN  RunLen(s, BT, sp + 1) >= 3

\* a fence-close test that accepts anything after the backticks, as the
\* fence-open pattern does
FenceCloseMatchesLoose(s) ==
    LET sp == RunLen(s, " ", 1)
    IN  RunLen(s, BT, sp + 1) >= 3

\* /^[ ]*BT BT BT[BT]*[ ]*$/
FenceCloseMatches(s) ==
    LET sp == RunLen(s, " ", 1)
        bt == RunLen(s, BT, sp + 1)
        tr == RunLen(s, " ", sp + bt + 1)
    IN  bt >= 3 /\ sp + bt + tr = Len(s)

\* re.subn(/^[ ]*BT BT BT.*$/, /<pre>/, line)
FenceOpenSubn(s) ==
    IF FenceOpenMatches(s) THEN <<PreOpen, 1>> ELSE <<s, 0>>

\* re.subn(/^[ ]*BT BT BT[BT]*[ ]*$/, /</pre>/, line)
FenceCloseSubn(s) ==
    IF FenceCloseMatches(s) THEN <<PreClose, 1>> ELSE <<s, 0>>

\* End of the match of [^m] m ([^m]+) m that starts at index i, 0 when the
\* pattern does not match there.  [^m]+ cannot run over an m, so the greedy
\* match ends at the first m after the first character of the span.
ItalicEnd(s, m, i) ==
    IF i + 3 <= Len(s) /\ s[i] # m /\ s[i + 1] = m /\ s[i + 2] # m
    THEN NextIdx(s, m, i + 3)
    ELSE 0

\* the same substitution with a span at the start of the line accepted too
RECURSIVE SubEmStarLineStart(_, _)
SubEmStarLineStart(s, i) ==
    IF i > Len(s) THEN <<>>
    ELSE IF i = 1 /\ Len(s) >= 3 /\ s[1] = "*" /\ s[2] # "*" /\ NextIdx(s, "*", 3) # 0
    THEN EmOpen \o SubSeq(s, 2, NextIdx(s, "*", 3) - 1) \o EmClose
             \o SubEmStarLineStart(s, NextIdx(s, "*", 3) + 1)
    ELSE LET e == ItalicEnd(s, "*", i)
         IN  IF e = 0
             THEN <<s[i]>> \o SubEmStarLineStart(s, i + 1)
             ELSE <<s[i]>> \o EmOpen \o SubSeq(s, i + 2, e - 1) \o EmClose
                      \o SubEmStarLineStart(s, e + 1)

\* re.sub(/([^*])\*([^*]+)\*/, /\1<em>\2</em>/, line), scanning from i
RECURSIVE SubEmStar(_, _)
SubEmStar(s, i) ==
    IF i > Len(s) THEN <<>>
    ELSE LET e == ItalicEnd(s, "*", i)
         IN  IF e = 0
             THEN <<s[i]>> \o SubEmStar(s, i + 1)
             ELSE <<s[i]>> \o EmOpen \o SubSeq(s, i + 2, e - 1) \o EmClose
                      \o SubEmStar(s, e + 1)

\* re.sub(/[^_]_([^_]+)_/, /<em>\1</em>/, line), scanning from i: the
\* character before the span is part of the match and is not in the
\* replacement
RECURSIVE SubEmUnderscore(_, _)
SubEmUnderscore(s, i) ==
    IF i > Len(s) THEN <<>>
    ELSE LET e == ItalicEnd(s, "_", i)
         IN  IF e = 0
             THEN <<s[i]>> \o SubEmUnderscore(s, i + 1)
             ELSE EmOpen \o SubSeq(s, i + 2, e - 1) \o EmClose
                      \o SubEmUnderscore(s, e + 1)

\* End of the match of m m ([^m]+) m m that starts at index i, 0 when the
\* pattern does not match there.
BoldEnd(s, m, i) ==
    IF i + 4 <= Len(s) /\ s[i] = m /\ s[i + 1] = m /\ s[i + 2] # m
    THEN LET j == NextIdx(s, m, i + 3)
         IN  IF j # 0 /\ j + 1 <= Len(s) /\ s[j + 1] = m THEN j + 1 ELSE 0
    ELSE 0

\* re.sub(/\*\*([^*]+)\*\*/, /<strong>\1</strong>/, line) with m = "*" and
\* re.sub(/__([^_]+)__/, /<strong>\1</strong>/, line) with m = "_"
RECURSIVE SubStrong(_, _, _)
SubStrong(s, m, i) ==
    IF i > Len(s) THEN <<>>
    ELSE LET e == BoldEnd(s, m, i)
         IN  IF e = 0
             THEN <<s[i]>> \o SubStrong(s, m, i + 1)
             ELSE StrongOpen \o SubSeq(s, i + 2, e - 2) \o StrongClose
                      \o SubStrong(s, m, e + 1)

\* a rule that accepts three hyphens only
HrMatchesExactlyThree(s) ==
    LET sp == RunLen(s, " ", 1)
        hy == RunLen(s, "-", sp + 1)
        tr == RunLen(s, " ", sp + hy + 1)
    IN  hy = 3 /\ sp + hy + tr = Len(s)

\* /^[ ]*---[-]*[ ]*$/
HrMatches(s) ==
    LET sp == RunLen(s, " ", 1)
        hy == RunLen(s, "-", sp + 1)
        tr == RunLen(s, " ", sp + hy + 1)
    IN  hy >= 3 /\ sp + hy + tr = Len(s)

\* re.sub(/^[ ]*---[-]*[ ]*$/, /<hr />/, line)
SubHr(s) == IF HrMatches(s) THEN HrTag ELSE s

\* index of the last c in s, 0 when there is none
LastIdx(s, c) ==
    IF \E j \in 1..Len(s) : s[j] = c
    THEN CHOOSE j \in 1..Len(s) : s[j] = c /\ \A k \in (j + 1)..Len(s) : s[k] # c
    ELSE 0

\* re.sub(/BT(.*)BT/, /<code>\1</code>/, line): the greedy .* makes the one
\* match run from the first backtick of the line to its last
SubCode(s) ==
    LET f == NextIdx(s, BT, 1)
        l == LastIdx(s, BT)
    IN  IF f # 0 /\ f < l
        THEN SubSeq(s, 1, f - 1) \o CodeOpen \o SubSeq(s, f + 1, l - 1)
                 \o CodeClose \o SubSeq(s, l + 1, Len(s))
        ELSE s

\* the chain of inline rules and the paragraph wrapper, convert.py 138-154
InlineRules(s) ==
    LET a == SubEmStar(s, 1)
        b == SubEmUnderscore(a, 1)
        c == SubStrong(b, "*", 1)
        d == SubStrong(c, "_", 1)
        e == SubHr(d)
        f == SubCode(e)
    IN  POpen \o f \o PClose

\* One iteration of the loop of markdown_to_html on the item raw_line with
\* the flag in_block: the line written and the flag afterwards.
TransformLine(raw_line, in_block) ==
    LET s == Strip(raw_line)
    IN  IF ~in_block
        THEN LET t == FenceOpenSubn(s)
             IN  IF t[2] > 0
                 THEN [line |-> t[1], in_code_block |-> TRUE]
                 ELSE [line |-> InlineRules(s), in_code_block |-> FALSE]
        ELSE LET t == FenceCloseSubn(s)
             IN  [line |-> t[1], in_code_block |-> (t[2] = 0)]

\* convert.py 164-169: what output_file.write receives, without the newline
Written(l) == IF l # <<>> THEN l ELSE <<>>

(* ------------------------ markdown_to_html ----------------------------- *)

MdInit ==
    /\ md_pc = "idle"
    /\ in_code_block = FALSE
    /\ raw = <<>>
    /\ line = <<>>
    /\ nread = 0
    /\ nwritten = 0
    /\ md_shell = "none"

\* a start of markdown_to_html with the flag kept in a global
MdOpenKeepFlag ==
    /\ md_pc \in {"idle", "done"}
    /\ md_pc' = "for"
    /\ in_code_block' = in_code_block
    /\ raw' = <<>>
    /\ line' = <<>>
    /\ nread' = 0
    /\ nwritten' = 0
    /\ md_shell' = "head"
    /\ UNCHANGED not_md_vars

\* convert.py 107-120: a call of markdown_to_html starts; the flag is a
\* local of the call
MdOpen ==
    /\ md_pc \in {"idle", "done"}
    /\ md_pc' = "for"
    /\ in_code_block' = FALSE
    /\ raw' = <<>>
    /\ line' = <<>>
    /\ nread' = 0
    /\ nwritten' = 0
    /\ md_shell' = "head"
    /\ UNCHANGED not_md_vars

\* convert.py 123-169: one iteration of the loop over post.content.splitlines()
MdLine ==
    /\ md_pc = "for"
    /\ nread < MaxLines
    /\ \E r \in Lines :
          LET t == TransformLine(r, in_code_block)
          IN  /\ raw' = r
              /\ line' = Written(t.line)
              /\ in_code_block' = t.in_code_block
    /\ nread' = nread + 1
    /\ nwritten' = nwritten + 1
    /\ md_pc' = "wrote"
    /\ UNCHANGED md_shell
    /\ UNCHANGED not_md_vars

\* convert.py 123: back to the head of the loop; the loop variable is dead
\* until the next item is bound to it
MdNext ==
    /\ md_pc = "wrote"
    /\ md_pc' = "for"
    /\ raw' = <<>>
    /\ line' = <<>>
    /\ UNCHANGED <<in_code_block, nread, nwritten, md_shell>>
    /\ UNCHANGED not_md_vars

\* convert.py 171-173: the lines are exhausted, the closing lines are written
MdEnd ==
    /\ md_pc = "for"
    /\ md_pc' = "done"
    /\ md_shell' = "both"
    /\ UNCHANGED <<in_code_block, raw, line, nread, nwritten>>
    /\ UNCHANGED not_md_vars

(* --------------------------- the html shell ---------------------------- *)
MetaKeys == {"lang", "title", "keywords", "description"}
MetaVals == {"", "x"}
Metadatas == UNION {[K -> MetaVals] : K \in SUBSET MetaKeys}
EmptyMeta == [k \in {} |-> ""]
CssUrls == {"", "s.css"}
BaseNames == {"a", "b"}

Opt(present, l) == IF present THEN <<l>> ELSE <<>>

\* a head whose stylesheet line does not depend on the url
GetHtmlBeforeBodyAlwaysLink(filename, css_url, metadata) ==
    << <<"<!doctype html>">>,
       <<"<html lang=\"",
         IF "lang" \in DOMAIN metadata THEN metadata["lang"] ELSE "en", "\">">>,
       <<"<head>">>,
       <<"\t<meta charset=\"utf-8\">">>,
       <<"\t<title>",
         IF "title" \in DOMAIN metadata THEN metadata["title"] ELSE filename,
         "</title>">> >>
    \o Opt("keywords" \in DOMAIN metadata,
           <<"\t<meta name=\"keywords\" content=\"", metadata["keywords"], "\" />">>)
    \o Opt("description" \in DOMAIN metadata,
           <<"\t<meta name=\"description\" content=\"", metadata["description"], "\" />">>)
    \o << <<"\t<meta name=\"viewport\" content=\"width=device-width, initial-scale=1\" />">> >>
    \o << <<"\t<link rel=\"stylesheet\" href=\"", css_url, "\">">> >>
    \o << <<"</head>">>, <<"<body>">> >>

\* get_html_before_body: the lines of the page up to <body>; a line is the
\* sequence of the pieces the f-string joins
GetHtmlBeforeBody(filename, css_url, metadata) ==
    << <<"<!doctype html>">>,
       <<"<html lang=\"",
         IF "lang" \in DOMAIN metadata THEN metadata["lang"] ELSE "en", "\">">>,
       <<"<head>">>,
       <<"\t<meta charset=\"utf-8\">">>,
       <<"\t<title>",
         IF "title" \in DOMAIN metadata THEN metadata["title"] ELSE filename,
         "</title>">> >>
    \o Opt("keywords" \in DOMAIN metadata,
           <<"\t<meta name=\"keywords\" content=\"", metadata["keywords"], "\" />">>)
    \o Opt("description" \in DOMAIN metadata,
           <<"\t<meta name=\"description\" content=\"", metadata["description"], "\" />">>)
    \o << <<"\t<meta name=\"viewport\" content=\"width=device-width, initial-scale=1\" />">> >>
    \o Opt(css_url # "",
           <<"\t<link rel=\"stylesheet\" href=\"", css_url, "\">">>)
    \o << <<"</head>">>, <<"<body>">> >>

\* get_html_after_body
GetHtmlAfterBody == << <<"</body>">>, <<"</html>">> >>


HeadIdle ==
    /\ h_pc = "idle"
    /\ h_filename = "a"
    /\ h_css_url = ""
    /\ h_metadata = EmptyMeta
    /\ h_html = <<>>

HeadInit ==
    /\ h_pc = "call"
    /\ h_filename \in BaseNames
    /\ h_css_url \in CssUrls
    /\ h_metadata \in Metadatas
    /\ h_html = <<>>

\* a call of get_html_before_body, convert.py 48-64
RenderHead ==
    /\ h_pc = "call"
    /\ h_html' = GetHtmlBeforeBody(h_filename, h_css_url, h_metadata)
    /\ h_pc' = "head"
    /\ UNCHANGED <<h_filename, h_css_url, h_metadata>>
    /\ UNCHANGED not_head_vars

\* the call of get_html_after_body that follows it, convert.py 67-71
RenderTail ==
    /\ h_pc = "head"
    /\ h_html' = h_html \o GetHtmlAfterBody
    /\ h_pc' = "done"
    /\ UNCHANGED <<h_filename, h_css_url, h_metadata>>
    /\ UNCHANGED not_head_vars

(* ---------------------------- text_to_html ----------------------------- *)
\* an iteration that wraps before it tests for emptiness
TextLineAlwaysWrap(raw_line) == POpen \o Strip(raw_line) \o PClose

\* convert.py 194-204: what one iteration writes for the item raw_line
TextLine(raw_line) ==
    LET s == Strip(raw_line)
    IN  IF s # <<>> THEN POpen \o s \o PClose ELSE <<>>


TxtIdle ==
    /\ txt_pc = "idle"
    /\ txt_in = <<>>
    /\ txt_out = <<>>
    /\ txt_shell = "none"

\* the characters of the lines read so far, each with its newline
RECURSIVE FileSize(_)
FileSize(ls) ==
    IF ls = <<>> THEN 0 ELSE Len(Head(ls)) + 1 + FileSize(Tail(ls))

\* convert.py 178-188: the files are opened and the head is written
TxtOpen ==
    /\ txt_pc = "idle"
    /\ txt_pc' = "for"
    /\ \E css \in CssUrls : txt_out' = GetHtmlBeforeBody("a", css, EmptyMeta)
    /\ txt_shell' = "head"
    /\ UNCHANGED txt_in
    /\ UNCHANGED not_txt_vars

\* convert.py 191-204: one iteration of the loop over the lines of the file
TxtLine ==
    /\ txt_pc = "for"
    /\ FileSize(txt_in) < MaxTxtSize
    /\ \E r \in LinesOver(TxtChars, MaxTxtSize - FileSize(txt_in) - 1) :
          /\ txt_in' = Append(txt_in, r)
          /\ txt_out' = Append(txt_out, TextLine(r))
    /\ UNCHANGED <<txt_pc, txt_shell>>
    /\ UNCHANGED not_txt_vars

\* convert.py 206-208: the lines are exhausted, the closing lines are written
TxtEnd ==
    /\ txt_pc = "for"
    /\ txt_pc' = "done"
    /\ txt_out' = txt_out \o GetHtmlAfterBody
    /\ txt_shell' = "both"
    /\ UNCHANGED txt_in
    /\ UNCHANGED not_txt_vars

(* --------------------------- convert_to_html --------------------------- *)
Exts == {".md", ".txt", ".rst", ""}

\* the documents the input files hold: front matter and the lines after it
SampleDocs ==
    { [metadata |-> EmptyMeta, body |-> << <<"a">> >>],
      [metadata |-> [k \in {"title"} |-> "x"],
       body |-> << <<BT, BT, BT>>, <<"*", "a", "*">> >>] }

\* a directory entry: a file with its name, extension and content, or a
\* sub-directory
FileEntries ==
    [kind : {"file"}, name : BaseNames, ext : Exts, doc : SampleDocs]
DirEntries ==
    [kind : {"dir"}, name : {"sub"}, ext : {""}, doc : {[metadata |-> EmptyMeta, body |-> <<>>]}]
Entries == FileEntries \cup DirEntries

InPath(e) == <<e.name, e.ext>>

\* an output folder argument: the directory it names and whether the string
\* ends with a slash
Folders == [dir : {"til", "nodir"}, slash : BOOLEAN]

\* output_folder + output_fname: the file lies in the directory only when the
\* folder string ends with the slash
OutPath(folder, name) == [dir |-> folder.dir, slash |-> folder.slash, file |-> name]

\* the body loop of markdown_to_html run over a whole document, 123-169
RECURSIVE MdLoop(_, _)
MdLoop(body, in_block) ==
    IF body = <<>> THEN <<>>
    ELSE LET t == TransformLine(Head(body), in_block)
         IN  <<Written(t.line)>> \o MdLoop(Tail(body), t.in_code_block)

RECURSIVE TxtLoop(_)
TxtLoop(body) ==
    IF body = <<>> THEN <<>> ELSE <<TextLine(Head(body))>> \o TxtLoop(Tail(body))

\* the state of the file system and of the process that a call changes
\*   dirs      the directories that exist
\*   files     the content of every file of the output folders, by path
\*   opened    the input files that were opened for reading
\*   messages  what was printed
\*   status    the exit status as a string, running while the process runs

\* markdown_to_html, convert.py 103-173
MarkdownToHtml(e, folder, css_url, st) ==
    LET html == GetHtmlBeforeBody(e.name, css_url, e.doc.metadata)
                  \o MdLoop(e.doc.body, FALSE) \o GetHtmlAfterBody
    IN  [st EXCEPT !.opened = @ \cup {InPath(e)},
                   !.files = [q \in DOMAIN @ \cup {OutPath(folder, e.name)} |->
                                 IF q = OutPath(folder, e.name) THEN html ELSE @[q]],
                   !.messages = Append(@, <<"converted", InPath(e)>>)]

\* text_to_html, convert.py 176-208; the whole file is the body
TextToHtml(e, folder, css_url, st) ==
    LET html == GetHtmlBeforeBody(e.name, css_url, EmptyMeta)
                  \o TxtLoop(e.doc.body) \o GetHtmlAfterBody
    IN  [st EXCEPT !.opened = @ \cup {InPath(e)},
                   !.files = [q \in DOMAIN @ \cup {OutPath(folder, e.name)} |->
                                 IF q = OutPath(folder, e.name) THEN html ELSE @[q]],
                   !.messages = Append(@, <<"converted", InPath(e)>>)]

\* a convert_to_html that tests the folder after the dispatch
ConvertToHtmlDispatchFirst(e, output_folder, css_url, st) ==
    LET folder == [output_folder EXCEPT !.slash = TRUE]
        after == IF e.ext = ".md" THEN MarkdownToHtml(e, folder, css_url, st)
                 ELSE IF e.ext = ".txt" THEN TextToHtml(e, folder, css_url, st)
                 ELSE [st EXCEPT !.messages = Append(@, <<"bad extension", InPath(e)>>),
                                 !.status = "1"]
    IN  IF folder.dir \notin st.dirs
        THEN [after EXCEPT !.messages = Append(@, <<"bad folder", folder.dir>>),
                           !.status = "1"]
        ELSE after

\* convert_to_html, convert.py 74-100
ConvertToHtml(e, output_folder, css_url, st) ==
    LET folder == [output_folder EXCEPT !.slash = TRUE]
    IN  IF folder.dir \notin st.dirs
        THEN [st EXCEPT !.messages = Append(@, <<"bad folder", folder.dir>>),
                        !.status = "1"]
        ELSE IF e.ext = ".md" THEN MarkdownToHtml(e, folder, css_url, st)
        ELSE IF e.ext = ".txt" THEN TextToHtml(e, folder, css_url, st)
        ELSE [st EXCEPT !.messages = Append(@, <<"bad extension", InPath(e)>>),
                        !.status = "1"]


\* an output file left by an earlier run, at the path the next conversion of
\* a file named a writes
StaleFiles ==
    [q \in {OutPath([dir |-> "til", slash |-> TRUE], "a")} |-> << <<"stale">> >>]
NoFiles == [q \in {} |-> <<>>]

FsIdle ==
    fs = [dirs |-> {}, files |-> NoFiles, opened |-> {}, messages |-> <<>>,
          status |-> "running"]

CvIdle ==
    /\ cv_pc = "idle"
    /\ cv_path = [kind |-> "file", name |-> "a", ext |-> "",
                doc |-> [metadata |-> EmptyMeta, body |-> <<>>]]
    /\ cv_folder = [dir |-> "til", slash |-> TRUE]
    /\ cv_css = ""

\* a caller (the tests, the main block) is about to call convert_to_html
CvInit ==
    /\ cv_pc = "call"
    /\ cv_path \in FileEntries
    /\ cv_folder \in Folders
    /\ cv_css \in CssUrls
    /\ \E d \in {{}, {"til"}}, f \in {NoFiles, StaleFiles} :
          /\ (f # NoFiles => "til" \in d)
          /\ fs = [dirs |-> d, files |-> f, opened |-> {}, messages |-> <<>>,
                   status |-> "running"]

\* the call of convert_to_html: it returns, or sys.exit(1) ends the process
ConvertCall ==
    /\ cv_pc = "call"
    /\ fs' = ConvertToHtml(cv_path, cv_folder, cv_css, fs)
    /\ cv_pc' = IF fs'.status = "1" THEN "exited" ELSE "returned"
    /\ UNCHANGED <<cv_path, cv_folder, cv_css>>
    /\ UNCHANGED not_cv_vars

(* ------------------------------ __main__ ------------------------------- *)
\* os.listdir: entries with distinct paths, in any order
Listings ==
    {l \in UNION {[1..n -> Entries] : n \in 0..MaxFiles} :
        \A i, j \in 1..Len(l) : i # j => InPath(l[i]) # InPath(l[j])}


MainIdle ==
    /\ main_pc = "idle"
    /\ input_kind = "none"
    /\ listing = <<>>
    /\ idx = 0
    /\ options = [output |-> [dir |-> "til", slash |-> TRUE], stylesheet |-> ""]

\* the state at convert.py 277: the arguments are parsed; the input path is
\* a file (the one entry of listing), a directory (with that listing) or
\* does not exist
MainInit ==
    /\ main_pc = "start"
    /\ input_kind \in {"file", "dir", "missing"}
    /\ listing \in Listings
    /\ input_kind = "file" => Len(listing) = 1 /\ listing[1].kind = "file"
    /\ input_kind = "missing" => listing = <<>>
    /\ idx = 0
    /\ options \in [output : [dir : {"til"}, slash : BOOLEAN], stylesheet : CssUrls]
    /\ \E d \in {{}, {"til"}}, f \in {NoFiles, StaleFiles} :
          /\ (f # NoFiles => "til" \in d)
          /\ fs = [dirs |-> d, files |-> f, opened |-> {}, messages |-> <<>>,
                   status |-> "running"]

\* remake_til_folder, convert.py 21-34 and 278-279
MainRemake ==
    /\ main_pc = "start"
    /\ fs' = [fs EXCEPT !.dirs = @ \cup {options.output.dir},
                        !.files = [q \in {r \in DOMAIN @ : r.dir # options.output.dir} |-> @[q]],
                        !.messages = Append(@, <<"folder created", options.output.dir>>)]
    /\ main_pc' = "dispatch"
    /\ UNCHANGED <<input_kind, listing, idx, options>>
    /\ UNCHANGED not_main_vars

\* convert.py 286-289: the input path is a file
MainFile ==
    /\ main_pc = "dispatch"
    /\ input_kind = "file"
    /\ LET r == ConvertToHtml(listing[1], options.output, options.stylesheet, fs)
       IN  fs' = IF r.status = "1" THEN r ELSE [r EXCEPT !.status = "0"]
    /\ main_pc' = "exited"
    /\ UNCHANGED <<input_kind, listing, idx, options>>
    /\ UNCHANGED not_main_vars

\* convert.py 290-292: the input path is a directory, the loop starts
MainDir ==
    /\ main_pc = "dispatch"
    /\ input_kind = "dir"
    /\ main_pc' = "loop"
    /\ idx' = 1
    /\ UNCHANGED <<fs, input_kind, listing, options>>
    /\ UNCHANGED not_main_vars

\* convert.py 292-300: one item of the listing; sys.exit(1) inside
\* convert_to_html ends the process and with it the loop
MainDirItem ==
    /\ main_pc = "loop"
    /\ idx <= Len(listing)
    /\ fs' = IF listing[idx].kind = "file"
             THEN ConvertToHtml(listing[idx], options.output, options.stylesheet, fs)
             ELSE fs
    /\ IF fs'.status = "1"
       THEN main_pc' = "exited" /\ idx' = idx
       ELSE main_pc' = "loop" /\ idx' = idx + 1
    /\ UNCHANGED <<input_kind, listing, options>>
    /\ UNCHANGED not_main_vars

\* the listing is exhausted: the program ends with status 0
MainDirEnd ==
    /\ main_pc = "loop"
    /\ idx > Len(listing)
    /\ fs' = [fs EXCEPT !.status = "0"]
    /\ main_pc' = "exited"
    /\ UNCHANGED <<input_kind, listing, idx, options>>
    /\ UNCHANGED not_main_vars

\* convert.py 301-304: the input path does not exist
MainMissing ==
    /\ main_pc = "dispatch"
    /\ input_kind = "missing"
    /\ fs' = [fs EXCEPT !.messages = Append(@, <<"no such file", "input">>),
                        !.status = "1"]
    /\ main_pc' = "exited"
    /\ UNCHANGED <<input_kind, listing, idx, options>>
    /\ UNCHANGED not_main_vars

(* --------------------------- specifications ---------------------------- *)
MdIdle == MdInit

InitMd == MdInit /\ HeadIdle /\ TxtIdle /\ FsIdle /\ CvIdle /\ MainIdle
NextMd == MdOpen \/ MdLine \/ MdNext \/ MdEnd
SpecMd == InitMd /\ [][NextMd]_vars

InitTxt == MdIdle /\ HeadIdle /\ TxtIdle /\ FsIdle /\ CvIdle /\ MainIdle
NextTxt == TxtOpen \/ TxtLine \/ TxtEnd
SpecTxt == InitTxt /\ [][NextTxt]_vars

InitHead == MdIdle /\ HeadInit /\ TxtIdle /\ FsIdle /\ CvIdle /\ MainIdle
NextHead == RenderHead \/ RenderTail
SpecHead == InitHead /\ [][NextHead]_vars

InitConvert == MdIdle /\ HeadIdle /\ TxtIdle /\ CvInit /\ MainIdle
NextConvert == ConvertCall
SpecConvert == InitConvert /\ [][NextConvert]_vars

InitMain == MdIdle /\ HeadIdle /\ TxtIdle /\ CvIdle /\ MainInit
NextMain ==
    MainRemake \/ MainFile \/ MainDir \/ MainDirItem \/ MainDirEnd \/ MainMissing
SpecMain == InitMain /\ [][NextMain]_vars

(* ------------------------------ the claims ----------------------------- *)
\* The predicates below describe lines by their shape; they do not use the
\* operators that model the regular expressions.
AllIn(s, i, j, S) == \A k \in i..j : s[k] \in S

\* s without its leading and trailing whitespace
Trimmed(s) ==
    IF AllIn(s, 1, Len(s), Whitespace) THEN <<>>
    ELSE LET a == CHOOSE k \in 1..Len(s) :
                      s[k] \notin Whitespace /\ AllIn(s, 1, k - 1, Whitespace)
             b == CHOOSE k \in 1..Len(s) :
                      s[k] \notin Whitespace /\ AllIn(s, k + 1, Len(s), Whitespace)
         IN  SubSeq(s, a, b)

\* spaces, three backticks, anything
IsFenceOpenLine(s) ==
    \E i \in 0..Len(s) :
        i + 3 <= Len(s) /\ AllIn(s, 1, i, {" "}) /\ AllIn(s, i + 1, i + 3, {BT})

\* spaces, three or more backticks, spaces
IsFenceCloseLine(s) ==
    \E i, j \in 0..Len(s) :
        /\ i + 3 <= j
        /\ AllIn(s, 1, i, {" "})
        /\ AllIn(s, i + 1, j, {BT})
        /\ AllIn(s, j + 1, Len(s), {" "})

\* whitespace, three or more hyphens, whitespace
IsHrLine(s) ==
    \E i, j \in 0..Len(s) :
        /\ i + 3 <= j
        /\ AllIn(s, 1, i, Whitespace)
        /\ AllIn(s, i + 1, j, {"-"})
        /\ AllIn(s, j + 1, Len(s), Whitespace)

Markers == {"*", "_", BT}

\* the step in which one line of the markdown body is read and written
MdStep == md_pc = "for" /\ md_pc' = "wrote"

\* C1: a line processed while the fence flag is set is written as the trimmed
\* input line, unchanged and unwrapped, unless it is the fence-close line,
\* which is written as </pre>; the fence-open line is written as <pre>.
C1_FencedLinesVerbatim ==
    [][MdStep =>
        LET s == Trimmed(raw')
        IN  /\ (in_code_block /\ ~IsFenceCloseLine(s) => line' = s)
            /\ (in_code_block /\ IsFenceCloseLine(s) => line' = PreClose)
            /\ (~in_code_block /\ IsFenceOpenLine(s) => line' = PreOpen)]_vars

C1_Witness ==
    /\ md_pc = "wrote"
    /\ in_code_block
    /\ raw = <<" ", "*", "a", "*">>
    /\ line = <<"*", "a", "*">>

\* C2: in markdown mode a line that is empty after trimming is written as a
\* blank line, and <p></p> is never written.
C2_BlankLinesStayBlank ==
    md_pc = "wrote" =>
        /\ (Trimmed(raw) = <<>> => line = <<>>)
        /\ line # POpen \o PClose

\* the lines of an output file between its <body> line and its </body> line
BodyOf(f) ==
    LET b == CHOOSE i \in 1..Len(f) : f[i] = <<"<body>">>
        e == IF \E i \in 1..Len(f) : f[i] = <<"</body>">>
             THEN (CHOOSE i \in 1..Len(f) : f[i] = <<"</body>">>) - 1
             ELSE Len(f)
    IN  SubSeq(f, b + 1, e)

\* C3: text_to_html writes one body line per input line, in order: <p>t</p>
\* for a line whose trimmed text t is not empty, a blank line otherwise, and
\* t is copied as it is.
C3_TextLinesInOrder ==
    txt_pc \in {"for", "done"} =>
        LET body == BodyOf(txt_out)
        IN  /\ Len(body) = Len(txt_in)
            /\ \A i \in 1..Len(txt_in) :
                  LET t == Trimmed(txt_in[i])
                  IN  body[i] = IF t # <<>> THEN POpen \o t \o PClose ELSE <<>>

C3_Witness ==
    /\ txt_pc = "done"
    /\ txt_in = << <<BT, BT, BT>>, <<" ">> >>
    /\ BodyOf(txt_out) = << POpen \o <<BT, BT, BT>> \o PClose, <<>> >>

Supported(e) == e.kind = "file" /\ e.ext \in {".md", ".txt"}
Unsupported(e) == e.kind = "file" /\ e.ext \notin {".md", ".txt"}

\* C4: when a directory is converted, a file with an unsupported extension
\* does not stop the files after it in the listing from being converted.
C4_DirectoryErrorIsolation ==
    (main_pc = "exited" /\ input_kind = "dir") =>
        \A i, j \in 1..Len(listing) :
            (i < j /\ Unsupported(listing[i]) /\ Supported(listing[j])) =>
                OutPath([dir |-> options.output.dir, slash |-> TRUE], listing[j].name)
                    \in DOMAIN fs.files

\* C5: a call of convert_to_html that ends in an error ends the process with
\* status 1 and leaves the files as they were: with an output folder that is
\* no directory no input is opened and no output is written, whatever the
\* extension; with an unsupported extension no output is written.
C5_ErrorsLeaveFilesUntouched ==
    [][(cv_pc = "call" /\ cv_pc' # "call") =>
        LET bad_folder == cv_folder.dir \notin fs.dirs
            bad_ext == cv_path.ext \notin {".md", ".txt"}
        IN  /\ bad_folder =>
                  fs'.status = "1" /\ fs'.files = fs.files /\ fs'.opened = fs.opened
            /\ bad_ext => fs'.status = "1" /\ fs'.files = fs.files
            /\ fs'.status = "1" =>
                  cv_pc' = "exited" /\ fs'.files = fs.files /\ fs'.opened = fs.opened
            /\ fs'.status = "1" <=> (bad_folder \/ bad_ext)]_vars

C5_Witness ==
    /\ cv_pc = "exited"
    /\ fs.status = "1"
    /\ cv_path.ext = ".md"
    /\ cv_folder.dir \notin fs.dirs
    /\ fs.dirs = {"til"}
    /\ fs.files = StaleFiles
    /\ fs.opened = {}

\* C6: outside a fence, a line of optional whitespace, three or more hyphens
\* and optional whitespace is written as <p><hr /></p>.
C6_HrLine ==
    [][(MdStep /\ ~in_code_block /\ IsHrLine(raw')) =>
        line' = POpen \o HrTag \o PClose]_vars

C6_Witness ==
    /\ md_pc = "wrote"
    /\ ~in_code_block
    /\ raw = <<" ", "-", "-", "-", "-">>
    /\ line = POpen \o HrTag \o PClose

\* the text between the first n and the last n characters of s
Inner(s, n) == SubSeq(s, n + 1, Len(s) - n)

\* C7: outside a fence, a trimmed line *t* (t not empty, without asterisk,
\* underscore and backtick) is written as <p>*t*</p>, and a line **t** as
\* <p><strong>t</strong></p>.
C7_LineStartAsterisks ==
    [][(MdStep /\ ~in_code_block) =>
        LET s == Trimmed(raw')
        IN  /\ ( /\ Len(s) >= 3
                 /\ s[1] = "*" /\ s[Len(s)] = "*"
                 /\ AllIn(s, 2, Len(s) - 1, Chars \ Markers) )
               => line' = POpen \o s \o PClose
            /\ ( /\ Len(s) >= 5
                 /\ AllIn(s, 1, 2, {"*"}) /\ AllIn(s, Len(s) - 1, Len(s), {"*"})
                 /\ AllIn(s, 3, Len(s) - 2, Chars \ Markers) )
               => line' = POpen \o StrongOpen \o Inner(s, 2) \o StrongClose \o PClose]_vars

C7_Witness ==
    /\ md_pc = "wrote"
    /\ ~in_code_block
    /\ raw = <<"*", "a", "-", "*">>
    /\ line = POpen \o raw \o PClose

\* index of the line l in the lines h, 0 when it is not there
Pos(h, l) == IF \E i \in 1..Len(h) : h[i] = l
             THEN CHOOSE i \in 1..Len(h) : h[i] = l ELSE 0

\* C8: get_html_before_body emits its lines in one fixed order; the keywords
\* line is there iff metadata has keywords, the description line iff it has
\* description, the stylesheet line iff the url is not empty; lang and title
\* come from metadata when present and are en and the file name otherwise.
C8_HeadLines ==
    h_pc = "head" =>
        LET h == h_html
            m == h_metadata
            has(k) == k \in DOMAIN m
            kw == Pos(h, <<"\t<meta name=\"keywords\" content=\"",
                           IF has("keywords") THEN m["keywords"] ELSE "", "\" />">>)
            de == Pos(h, <<"\t<meta name=\"description\" content=\"",
                           IF has("description") THEN m["description"] ELSE "", "\" />">>)
            vp == Pos(h, <<"\t<meta name=\"viewport\" content=\"width=device-width, initial-scale=1\" />">>)
            li == Pos(h, <<"\t<link rel=\"stylesheet\" href=\"", h_css_url, "\">">>)
            n == Len(h)
        IN  /\ n >= 8
            /\ h[1] = <<"<!doctype html>">>
            /\ h[2] = <<"<html lang=\"", IF has("lang") THEN m["lang"] ELSE "en", "\">">>
            /\ h[3] = <<"<head>">>
            /\ h[4] = <<"\t<meta charset=\"utf-8\">">>
            /\ h[5] = <<"\t<title>", IF has("title") THEN m["title"] ELSE h_filename,
                        "</title>">>
            /\ h[n - 1] = <<"</head>">>
            /\ h[n] = <<"<body>">>
            /\ (kw # 0) <=> has("keywords")
            /\ (de # 0) <=> has("description")
            /\ (li # 0) <=> (h_css_url # "")
            /\ vp # 0
            /\ n = 8 + (IF kw # 0 THEN 1 ELSE 0) + (IF de # 0 THEN 1 ELSE 0)
                     + (IF li # 0 THEN 1 ELSE 0)
            /\ kw # 0 => kw = 6
            /\ de # 0 => de = vp - 1
            /\ li # 0 => li = vp + 1

C8_Witness ==
    /\ h_pc = "head"
    /\ DOMAIN h_metadata = {"keywords", "lang"}
    /\ h_metadata["keywords"] = ""
    /\ h_css_url = ""
    /\ Len(h_html) = 9

\* C9: the fence flag is false when a document starts, whatever it was when
\* the one before ended; a line sets it iff it is a fence-open line read
\* while it is false, clears it iff it is a fence-close line read while it is
\* true; the end of the lines leaves it as it is and the closing lines are
\* written all the same.
C9_FenceFlag ==
    [][/\ (md_pc \in {"idle", "done"} /\ md_pc' = "for") => ~in_code_block'
       /\ MdStep =>
             in_code_block' =
                 IF in_code_block THEN ~IsFenceCloseLine(Trimmed(raw'))
                 ELSE IsFenceOpenLine(Trimmed(raw'))
       /\ (in_code_block' # in_code_block) =>
             (MdStep \/ (md_pc = "done" /\ md_pc' = "for"))
       /\ (md_pc = "for" /\ in_code_block) => ENABLED MdEnd
       /\ md_pc' = "done" => md_shell' = "both" /\ in_code_block' = in_code_block]_vars

C9_Witness ==
    /\ md_pc = "done"
    /\ in_code_block
    /\ md_shell = "both"
    /\ nwritten = MaxLines

\* C10: outside a fence, in a line whose only markers are the two
\* underscores of one span _t_ that follows a character c, the span becomes
\* <em>t</em> and c and the text around the span stay.
C10_UnderscoreKeepsContext ==
    (md_pc = "wrote" /\ ~in_code_block) =>
        LET s == Trimmed(raw)
        IN  \A i, j \in 1..Len(s) :
               ( /\ 1 < i /\ i + 1 < j
                 /\ s[i] = "_" /\ s[j] = "_"
                 /\ \A k \in 1..Len(s) : k \notin {i, j} => s[k] \notin Markers )
               => line = POpen \o SubSeq(s, 1, i - 1) \o EmOpen \o SubSeq(s, i + 1, j - 1)
                             \o EmClose \o SubSeq(s, j + 1, Len(s)) \o PClose
====
